---- MODULE Spec2Model ----
(***************************************************************************)
(* State-machine model of server1.py: the GitHub profile fetcher and       *)
(* aggregator (GitHubAnalyzer), the scoring client (AIAnalyzer), the       *)
(* POST /api/analyze and GET /api/analyses handlers and the db.analyses    *)
(* collection.  One slot is one in-flight request; an action is one step   *)
(* of a handler between two awaits, together with the answer the awaited   *)
(* service gives.                                                          *)
(***************************************************************************)
EXTENDS Integers, Sequences, FiniteSets, TLC

VARIABLES req, store, clock

vars == <<req, store, clock>>

(***************************************************************************)
(* Bounds of the model.                                                    *)
(***************************************************************************)
\* longest repository list the listing call answers with is TopRepos + MaxBeyondTop
MaxBeyondTop == 1
\* records the sequential client stores beyond RecentLimit
MaxBeyondRecent == 1
\* records stored under concurrent requests
MaxConcStore == 3
\* ticks of the wall clock (half seconds)
MaxClock == 3
\* pieces a username is put together from
MaxPieces == 2
\* tokens of a scoring response text
MaxText == 3

(***************************************************************************)
(* Program constants.                                                      *)
(***************************************************************************)
\* repos[:10]
TopRepos == 10
\* .limit(10).to_list(10)
RecentLimit == 10

(***************************************************************************)
(* Helpers on sequences.                                                   *)
(***************************************************************************)
Range(s) == {s[i] : i \in 1..Len(s)}

Min(S) == CHOOSE x \in S : \A y \in S : x <= y

RECURSIVE SumSeq(_)
SumSeq(s) == IF s = <<>> THEN 0 ELSE Head(s) + SumSeq(Tail(s))

RECURSIVE SumFun(_, _)
\* sum(d.values()) for a dict d restricted to the keys K
SumFun(d, K) ==
    IF K = {} THEN 0
    ELSE LET k == CHOOSE x \in K : TRUE IN d[k] + SumFun(d, K \ {k})

RECURSIVE SeqsUpTo(_, _)
\* all sequences over S of length at most n
SeqsUpTo(S, n) ==
    IF n = 0 THEN {<<>>}
    ELSE LET P == SeqsUpTo(S, n - 1)
         IN P \cup {Append(p, x) : p \in {q \in P : Len(q) = n - 1}, x \in S}

RECURSIVE Concat(_)
\* the concatenation of a sequence of sequences
Concat(ss) == IF ss = <<>> THEN <<>> ELSE Head(ss) \o Concat(Tail(ss))

(***************************************************************************)
(* Python str methods, on strings as sequences of characters.              *)
(***************************************************************************)
Whitespace == {" ", "\t", "\n"}

RECURSIVE LStripChars(_, _)
LStripChars(s, C) ==
    IF s # <<>> /\ Head(s) \in C THEN LStripChars(Tail(s), C) ELSE s

RECURSIVE RStripChars(_, _)
RStripChars(s, C) ==
    IF s # <<>> /\ s[Len(s)] \in C THEN RStripChars(SubSeq(s, 1, Len(s) - 1), C) ELSE s

\* str.strip(chars)
StripChars(s, C) == RStripChars(LStripChars(s, C), C)

\* str.strip()
Strip(s) == StripChars(s, Whitespace)

\* positions at which sep occurs in s
Occurrences(s, sep) ==
    {i \in 1..(Len(s) - Len(sep) + 1) : SubSeq(s, i, i + Len(sep) - 1) = sep}

\* sep in s
Contains(s, sep) == Occurrences(s, sep) # {}

RECURSIVE Split(_, _)
\* str.split(sep): the pieces between the occurrences of sep, found left to right
Split(s, sep) ==
    IF Occurrences(s, sep) = {} THEN <<s>>
    ELSE LET i == Min(Occurrences(s, sep))
         IN <<SubSeq(s, 1, i - 1)>> \o Split(SubSeq(s, i + Len(sep), Len(s)), sep)

\* seq[-1]
Last(s) == s[Len(s)]

(***************************************************************************)
(* Username normalisation of POST /api/analyze.                            *)
(***************************************************************************)
HostMarker == <<"g", "i", "t", "h", "u", "b", ".", "c", "o", "m", "/">>

\* a faulty variant: the trailing slash of a profile URL is kept
derive_username_keep_slash(github_url) ==
    LET username == Strip(github_url)
    IN IF Contains(username, HostMarker)
       THEN Last(Split(username, HostMarker))
       ELSE username

derive_username(github_url) ==
    LET username == Strip(github_url)
    IN IF Contains(username, HostMarker)
       THEN StripChars(Last(Split(username, HostMarker)), {"/"})
       ELSE username

(***************************************************************************)
(* Timestamps: datetime.now(timezone.utc), isoformat, fromisoformat.       *)
(* A datetime is its time of day on one fixed date; the clock counts half  *)
(* seconds from 00:00:58.5, so that it passes a minute boundary.           *)
(***************************************************************************)
Ascii(c) ==
    CASE c = "+" -> 43 [] c = "-" -> 45 [] c = "." -> 46 [] c = "0" -> 48
      [] c = "1" -> 49 [] c = "2" -> 50 [] c = "6" -> 54 [] c = ":" -> 58
      [] c = "T" -> 84 [] c = "Z" -> 90

\* the digits of n, zero padded to width w, as character codes
RECURSIVE Digits(_, _)
Digits(n, w) == IF w = 0 THEN <<>> ELSE Digits(n \div 10, w - 1) \o <<48 + (n % 10)>>

RECURSIVE Number(_)
\* int() of a sequence of digit codes
Number(ds) == IF ds = <<>> THEN 0 ELSE 10 * Number(SubSeq(ds, 1, Len(ds) - 1)) + (Last(ds) - 48)

\* datetime.now(timezone.utc) when the clock shows c
now(c) ==
    LET half == 117 + c
        secs == half \div 2
    IN [hour |-> secs \div 3600, minute |-> (secs \div 60) % 60, second |-> secs % 60,
        microsecond |-> (half % 2) * 500000]

\* the instant of a datetime, in microseconds of the day
Instant(dt) == ((dt.hour * 60 + dt.minute) * 60 + dt.second) * 1000000 + dt.microsecond

DatePart == <<Ascii("2"), Ascii("0"), Ascii("2"), Ascii("6"), Ascii("-"), Ascii("1"), Ascii("1"),
              Ascii("-"), Ascii("0"), Ascii("6"), Ascii("T")>>

UtcOffset == <<Ascii("+"), Ascii("0"), Ascii("0"), Ascii(":"), Ascii("0"), Ascii("0")>>

\* a faulty variant: UTC written as the suffix Z
isoformat_zulu(dt) ==
    DatePart \o Digits(dt.hour, 2) \o <<Ascii(":")>> \o Digits(dt.minute, 2) \o <<Ascii(":")>>
      \o Digits(dt.second, 2)
      \o (IF dt.microsecond = 0 THEN <<>> ELSE <<Ascii(".")>> \o Digits(dt.microsecond, 6))
      \o <<Ascii("Z")>>

\* datetime.isoformat() of an aware UTC datetime: the microseconds are left out when zero
isoformat(dt) ==
    DatePart \o Digits(dt.hour, 2) \o <<Ascii(":")>> \o Digits(dt.minute, 2) \o <<Ascii(":")>>
      \o Digits(dt.second, 2)
      \o (IF dt.microsecond = 0 THEN <<>> ELSE <<Ascii(".")>> \o Digits(dt.microsecond, 6))
      \o UtcOffset

\* datetime.fromisoformat(s)
fromisoformat(s) ==
    [hour |-> Number(SubSeq(s, 12, 13)), minute |-> Number(SubSeq(s, 15, 16)),
     second |-> Number(SubSeq(s, 18, 19)),
     microsecond |-> IF Len(s) >= 20 /\ s[20] = Ascii(".") THEN Number(SubSeq(s, 21, 26)) ELSE 0]

\* a < b in the store's order of strings: byte by byte, a proper prefix first
StrLess(a, b) ==
    LET differ == {k \in 1..Min({Len(a), Len(b)}) : a[k] # b[k]}
    IN IF differ = {} THEN Len(a) < Len(b) ELSE a[Min(differ)] < b[Min(differ)]

(***************************************************************************)
(* The Result Store: db.analyses, a sequence of documents in insertion     *)
(* order.                                                                  *)
(***************************************************************************)
StoredIds == {store[i].id : i \in 1..Len(store)}

\* .sort("timestamp", -1): document i comes before document j; the store leaves the order of
\* equal keys open, newestFirst is the order it happens to take
SortedBefore(docs, i, j, newestFirst) ==
    \/ StrLess(docs[j].timestamp, docs[i].timestamp)
    \/ docs[i].timestamp = docs[j].timestamp /\ (IF newestFirst THEN i > j ELSE i < j)

\* find({}).sort("timestamp", -1).limit(n).to_list(n)
FindSortedLimit(docs, n, newestFirst) ==
    LET rank == [i \in 1..Len(docs) |->
                   1 + Cardinality({j \in 1..Len(docs) : SortedBefore(docs, j, i, newestFirst)})]
        at == [p \in 1..Len(docs) |-> CHOOSE i \in 1..Len(docs) : rank[i] = p]
    IN [p \in 1..Min({n, Len(docs)}) |-> docs[at[p]]]

\* the body of GET /api/analyses: each document with its timestamp parsed back
RecentAnalyses(docs, newestFirst) ==
    LET found == FindSortedLimit(docs, RecentLimit, newestFirst)
    IN [p \in 1..Len(found) |-> [found[p] EXCEPT !.timestamp = fromisoformat(@)]]

(***************************************************************************)
(* The hosting API's answers.  None is Python's None; a value is truthy    *)
(* when it is neither None nor the empty string.                           *)
(***************************************************************************)
None == "<None>"

Truthy(v) == v \notin {None, ""}

\* what the hosting API holds for one repository, and how it answers a fetch of its README:
\* "text" (200 with text), "empty" (200 with an empty body), "status" (not 200), "exception"
RepoKinds ==
    { [stargazers_count |-> 3, forks_count |-> 1, language |-> "Python", description |-> "d",
       readme |-> "text"],
      [stargazers_count |-> 0, forks_count |-> 0, language |-> None, description |-> None,
       readme |-> "status"],
      [stargazers_count |-> 5, forks_count |-> 2, language |-> "Go", description |-> "",
       readme |-> "empty"],
      [stargazers_count |-> 1, forks_count |-> 0, language |-> "Python", description |-> None,
       readme |-> "exception"] }

\* the list of n repositories that repeats the kinds of base, named by their position
RepoList(base, n) ==
    [i \in 1..n |->
        LET k == base[((i - 1) % Len(base)) + 1]
        IN [name |-> i, stargazers_count |-> k.stargazers_count, forks_count |-> k.forks_count,
            language |-> k.language, description |-> k.description, readme |-> k.readme]]

\* a faulty variant: a 404 is not told apart from the other error statuses
get_user_profile_no_404(resp, username) ==
    CASE resp = "ok" -> [raised |-> "", value |-> [login |-> username]]
      [] resp = "404" -> [raised |-> "HTTPException", status |-> 500,
                          detail |-> <<"Failed to fetch GitHub profile">>]
      [] resp = "error" -> [raised |-> "HTTPException", status |-> 500,
                            detail |-> <<"Failed to fetch GitHub profile">>]
      [] resp = "badjson" -> [raised |-> "ValueError"]

\* GitHubAnalyzer.get_user_profile: resp is the API's answer, "ok" (200 with a JSON profile),
\* "404", "error" (an httpx.HTTPError: transport failure or another error status) or
\* "badjson" (200 with a body response.json() cannot decode)
get_user_profile(resp, username) ==
    CASE resp = "ok" -> [raised |-> "", value |-> [login |-> username]]
      [] resp = "404" -> [raised |-> "HTTPException", status |-> 404,
                          detail |-> <<"GitHub user not found">>]
      [] resp = "error" -> [raised |-> "HTTPException", status |-> 500,
                            detail |-> <<"Failed to fetch GitHub profile">>]
      [] resp = "badjson" -> [raised |-> "ValueError"]

\* a faulty variant: a failed listing is raised to the caller
get_repositories_raising(resp) ==
    CASE resp.kind = "list" -> [raised |-> "", value |-> resp.repos]
      [] resp.kind = "error" -> [raised |-> "HTTPError"]
      [] resp.kind = "badjson" -> [raised |-> "ValueError"]

\* GitHubAnalyzer.get_repositories: a list, [] on an httpx.HTTPError
get_repositories(resp) ==
    CASE resp.kind = "list" -> [raised |-> "", value |-> resp.repos]
      [] resp.kind = "error" -> [raised |-> "", value |-> <<>>]
      [] resp.kind = "badjson" -> [raised |-> "ValueError"]

\* GitHubAnalyzer.get_readme: the text on 200, None otherwise
get_readme(answer) ==
    CASE answer = "text" -> "# readme"
      [] answer = "empty" -> ""
      [] OTHER -> None

\* repos[:10]
Top(repos) == SubSeq(repos, 1, Min({TopRepos, Len(repos)}))

\* a faulty variant: the README of every repository of the list is fetched
LoopRepos_all(repos) == repos

\* the repositories the loop of analyze_profile visits
LoopRepos(repos) == Top(repos)

\* lines 127-128: the sums over the whole list
Totals(repos) ==
    [total_stars |-> SumSeq([i \in 1..Len(repos) |-> repos[i].stargazers_count]),
     total_forks |-> SumSeq([i \in 1..Len(repos) |-> repos[i].forks_count])]

\* lines 134-142: one pass of the loop body over repo, on the counters st
LoopBody(st, repo) ==
    LET readme == get_readme(repo.readme)
    IN [st EXCEPT
          !.languages =
              IF Truthy(repo.language)
              THEN IF repo.language \in DOMAIN @
                   THEN [@ EXCEPT ![repo.language] = @ + 1]
                   ELSE @ @@ (repo.language :> 1)
              ELSE @,
          !.repos_with_description = IF Truthy(repo.description) THEN @ + 1 ELSE @,
          !.repos_with_readme = IF Truthy(readme) THEN @ + 1 ELSE @]

\* the counters before the loop
NoStats ==
    [total_stars |-> 0, total_forks |-> 0, languages |-> <<>>, repos_with_readme |-> 0,
     repos_with_description |-> 0, top_repos |-> <<>>]

(***************************************************************************)
(* The scoring client.  A response text is a sequence of tokens: "FJ" is   *)
(* the fence ```json, "F" the fence ```, "W" whitespace, "P" prose and "J" *)
(* the text of one JSON document.                                          *)
(***************************************************************************)
Tokens == {"FJ", "F", "W", "P", "J"}

SixFields ==
    {"documentation", "code_structure", "activity_consistency", "repository_organization",
     "project_impact", "technical_depth"}

TextLists == {"strengths", "weaknesses", "recommendations"}

DefaultBreakdown ==
    [f \in SixFields |->
        CASE f = "documentation" -> 60 [] f = "code_structure" -> 65
          [] f = "activity_consistency" -> 55 [] f = "repository_organization" -> 60
          [] f = "project_impact" -> 50 [] f = "technical_depth" -> 60]

\* a JSON object with the four keys: its score_breakdown is the dict vals
ObjectDoc(vals) ==
    [kind |-> "object", keys |-> {"score_breakdown"} \cup TextLists, bd_kind |-> "dict",
     vals |-> vals, nonint |-> {}, lists_ok |-> TRUE]

\* AIAnalyzer._default_analysis
default_analysis == ObjectDoc(DefaultBreakdown)

\* lines 227-231: the text between the fences
StripFence(text) ==
    LET response_text == StripChars(text, {"W"})
    IN IF "FJ" \in Range(response_text)
       THEN Split(Split(response_text, <<"FJ">>)[2], <<"F">>)[1]
       ELSE IF "F" \in Range(response_text)
            THEN Split(Split(response_text, <<"F">>)[2], <<"F">>)[1]
            ELSE response_text

\* json.loads(response_text.strip()): the document when the text is one JSON document
JsonLoads(text, doc) ==
    IF StripChars(text, {"W"}) = <<"J">> THEN [raised |-> "", value |-> doc]
    ELSE [raised |-> "JSONDecodeError"]

\* a faulty variant: a failed call or parse is raised to the handler
generate_analysis_raising(out) ==
    IF out.raised # "" THEN [raised |-> out.raised]
    ELSE JsonLoads(StripFence(out.text), out.doc)

\* AIAnalyzer.generate_analysis, lines 214-238: out is what chat.send_message does, raise or
\* answer the text out.text whose JSON document (token "J") is out.doc
generate_analysis(out) ==
    IF out.raised # "" THEN [raised |-> "", value |-> default_analysis]
    ELSE LET parsed == JsonLoads(StripFence(out.text), out.doc)
         IN IF parsed.raised # "" THEN [raised |-> "", value |-> default_analysis]
            ELSE parsed

\* line 311: sum(breakdown.values()) // len(breakdown)
OverallScore(vals) == SumFun(vals, DOMAIN vals) \div Cardinality(DOMAIN vals)

\* ScoreBreakdown(**breakdown): the six fields, any other key ignored
ScoreBreakdown(vals) == [f \in SixFields |-> vals[f]]

\* lines 310-330: the exception raised while the record is built from ai_analysis, "" if none
BuildError(ai) ==
    CASE ai.kind # "object" -> "TypeError"
      [] "score_breakdown" \notin ai.keys -> "KeyError"
      [] ai.bd_kind # "dict" -> "AttributeError"
      [] ai.nonint # {} -> "TypeError"
      [] DOMAIN ai.vals = {} -> "ZeroDivisionError"
      [] ~ (SixFields \subseteq DOMAIN ai.vals) -> "ValidationError"
      [] ~ (TextLists \subseteq ai.keys) -> "KeyError"
      [] ~ ai.lists_ok -> "ValidationError"
      [] OTHER -> ""

\* lines 314-330: Analysis(...) with a fresh id and the current time
Analysis(id, username, ai, stats, c) ==
    [id |-> id, username |-> username, overall_score |-> OverallScore(ai.vals),
     score_breakdown |-> ScoreBreakdown(ai.vals),
     profile_data |-> [total_stars |-> stats.total_stars, languages |-> stats.languages],
     timestamp |-> now(c)]

\* lines 333-334: model_dump() with the timestamp as its ISO-8601 string
Document(analysis) == [analysis EXCEPT !.timestamp = isoformat(@)]

\* a faulty variant: every failure is answered 500
HandlerResponse_all500(exc) ==
    [status |-> 500, detail |-> <<"Analysis failed", exc.raised>>]

\* lines 340-344: an HTTPException passes, any other exception becomes a 500
HandlerResponse(exc) ==
    IF exc.raised = "HTTPException" THEN [status |-> exc.status, detail |-> exc.detail]
    ELSE [status |-> 500, detail |-> <<"Analysis failed", exc.raised>>]

(***************************************************************************)
(* The requests.  req[r] is the task of slot r: its position pc, the       *)
(* handler's locals, the response once pc = "done", and what the task has  *)
(* seen: calls, the outbound calls in the order their answers came back,   *)
(* answers, what each service answered, and store0, the store as it was    *)
(* when the request came in.                                               *)
(***************************************************************************)
NoAnswers == [profile |-> "", listing |-> "", scoring |-> "", insert |-> ""]

IdleReq ==
    [pc |-> "idle", kind |-> "", github_url |-> <<>>, username |-> <<>>, repos |-> <<>>,
     i |-> 0, stats |-> NoStats, ai_analysis |-> <<>>, analysis |-> <<>>, status |-> 0,
     detail |-> <<>>, body |-> <<>>, calls |-> <<>>, answers |-> NoAnswers, store0 |-> <<>>]

\* the ids of the records built and not yet stored
PendingIds == {req[r].analysis.id : r \in {q \in DOMAIN req : req[q].pc = "insert"}}

\* uuid.uuid4(): an id no record in the store or in flight has
uuid4 == Min((1..(Cardinality(StoredIds \cup PendingIds) + 1)) \ (StoredIds \cup PendingIds))

\* the response of a request that raised exc
Failed(q, exc) ==
    LET resp == HandlerResponse(exc)
    IN [q EXCEPT !.pc = "done", !.status = resp.status, !.detail = resp.detail]

\* a faulty variant: one record per username, replaced in place
insert_one_upsert(docs, doc) ==
    IF \E k \in 1..Len(docs) : docs[k].username = doc.username
    THEN [k \in 1..Len(docs) |-> IF docs[k].username = doc.username THEN doc ELSE docs[k]]
    ELSE Append(docs, doc)

\* db.analyses.insert_one(doc)
insert_one(docs, doc) == Append(docs, doc)

\* POST /api/analyze arrives: lines 297-299, then the profile call goes out
ReceiveAnalyze(r, github_url) ==
    /\ req[r].pc = "idle"
    /\ req' = [req EXCEPT ![r] = [IdleReq EXCEPT !.pc = "profile", !.kind = "analyze",
                                     !.github_url = github_url,
                                     !.username = derive_username(github_url),
                                     !.store0 = store]]
    /\ UNCHANGED <<store, clock>>

\* the profile answer comes back (line 123)
GetUserProfile(r, resp) ==
    /\ req[r].pc = "profile"
    /\ LET q == [req[r] EXCEPT !.calls = Append(@, <<"profile", req[r].username>>),
                               !.answers.profile = resp]
           res == get_user_profile(resp, req[r].username)
       IN req' = [req EXCEPT ![r] = IF res.raised = "" THEN [q EXCEPT !.pc = "repos"]
                                    ELSE Failed(q, res)]
    /\ UNCHANGED <<store, clock>>

\* the listing answer comes back (lines 124-131)
GetRepositories(r, resp) ==
    /\ req[r].pc = "repos"
    /\ LET q == [req[r] EXCEPT !.calls = Append(@, <<"repos", req[r].username>>),
                               !.answers.listing = resp.kind]
           res == get_repositories(resp)
       IN req' = [req EXCEPT ![r] =
                    IF res.raised # "" THEN Failed(q, res)
                    ELSE [q EXCEPT !.repos = res.value,
                                   !.stats.total_stars = Totals(res.value).total_stars,
                                   !.stats.total_forks = Totals(res.value).total_forks,
                                   !.stats.top_repos = Top(res.value),
                                   !.pc = IF LoopRepos(res.value) = <<>> THEN "scoring"
                                          ELSE "readme"]]
    /\ UNCHANGED <<store, clock>>

\* one pass of the loop, with the README answer of its repository (lines 133-142)
GetReadme(r) ==
    /\ req[r].pc = "readme"
    /\ LET repo == LoopRepos(req[r].repos)[req[r].i + 1]
       IN req' = [req EXCEPT ![r] =
                    [req[r] EXCEPT !.calls = Append(@, <<"readme", repo.name>>),
                                   !.stats = LoopBody(@, repo),
                                   !.i = @ + 1,
                                   !.pc = IF req[r].i + 1 = Len(LoopRepos(req[r].repos))
                                          THEN "scoring" ELSE "readme"]]
    /\ UNCHANGED <<store, clock>>

\* the scoring answer comes back; the record is built and the insert goes out (lines 307-334)
GenerateAnalysis(r, out) ==
    /\ req[r].pc = "scoring"
    /\ LET q == [req[r] EXCEPT !.calls = Append(@, <<"scoring", req[r].username>>),
                               !.answers.scoring =
                                   IF out.raised # "" THEN "raised"
                                   ELSE IF JsonLoads(StripFence(out.text), out.doc).raised # ""
                                        THEN "unparsable" ELSE "parsed"]
           res == generate_analysis(out)
       IN req' = [req EXCEPT ![r] =
                    IF res.raised # "" THEN Failed(q, res)
                    ELSE IF BuildError(res.value) # ""
                         THEN Failed([q EXCEPT !.ai_analysis = res.value],
                                     [raised |-> BuildError(res.value)])
                         ELSE [q EXCEPT !.ai_analysis = res.value,
                                        !.analysis = Analysis(uuid4, req[r].username, res.value,
                                                              req[r].stats, clock),
                                        !.pc = "insert"]]
    /\ UNCHANGED <<store, clock>>

\* the insert comes back (lines 335-338)
InsertOne(r, ok) ==
    /\ req[r].pc = "insert"
    /\ LET q == [req[r] EXCEPT !.calls = Append(@, <<"insert", req[r].username>>),
                               !.answers.insert = IF ok THEN "ok" ELSE "failed"]
       IN IF ok
          THEN /\ store' = insert_one(store, Document(req[r].analysis))
               /\ req' = [req EXCEPT ![r] = [q EXCEPT !.pc = "done", !.status = 200,
                                                      !.body = req[r].analysis]]
          ELSE /\ store' = store
               /\ req' = [req EXCEPT ![r] = Failed(q, [raised |-> "PyMongoError"])]
    /\ UNCHANGED clock

\* GET /api/analyses arrives and the query goes out
ReceiveList(r) ==
    /\ req[r].pc = "idle"
    /\ req' = [req EXCEPT ![r] = [IdleReq EXCEPT !.pc = "find", !.kind = "list",
                                                 !.store0 = store]]
    /\ UNCHANGED <<store, clock>>

\* the query comes back (lines 351-360)
GetRecentAnalyses(r, ok, newestFirst) ==
    /\ req[r].pc = "find"
    /\ req' = [req EXCEPT ![r] =
                 IF ok THEN [req[r] EXCEPT !.pc = "done", !.status = 200,
                                           !.body = RecentAnalyses(store, newestFirst)]
                 ELSE [req[r] EXCEPT !.pc = "done", !.status = 500,
                                     !.detail = <<"Failed to fetch analyses">>]]
    /\ UNCHANGED <<store, clock>>

\* the response is sent and the task ends
Return(r) ==
    /\ req[r].pc = "done"
    /\ req' = [req EXCEPT ![r] = IdleReq]
    /\ UNCHANGED <<store, clock>>

\* the wall clock moves on
Tick(limit) ==
    /\ clock < limit
    /\ clock' = clock + 1
    /\ UNCHANGED <<req, store>>

(***************************************************************************)
(* What the environment may send and answer.                               *)
(***************************************************************************)
Octocat == <<"o", "c", "t", "o", "c", "a", "t">>

Https == <<"h", "t", "t", "p", "s", ":", "/", "/">>

ScoreVals == {-5, 0, 100}

\* JSON documents the generator may answer with: well-formed ones, one with a seventh key in
\* the breakdown, and malformed ones
GoodDocs ==
    {ObjectDoc([DefaultBreakdown EXCEPT ![f] = x]) : f \in SixFields, x \in ScoreVals}
      \cup {ObjectDoc([f \in SixFields |-> x]) : x \in ScoreVals}

ExtraKeyDocs ==
    {ObjectDoc([k \in SixFields \cup {"overall"} |->
                  IF k = "overall" THEN x ELSE DefaultBreakdown[k]]) : x \in ScoreVals}

BadDocs ==
    { [default_analysis EXCEPT !.kind = "array"],
      [default_analysis EXCEPT !.keys = TextLists],
      [default_analysis EXCEPT !.keys = {"score_breakdown", "strengths", "weaknesses"}],
      [default_analysis EXCEPT !.bd_kind = "array"],
      [default_analysis EXCEPT !.nonint = {"documentation"}],
      [default_analysis EXCEPT !.vals = <<>>],
      [default_analysis EXCEPT !.vals = [f \in SixFields \ {"technical_depth"} |-> 70]],
      [default_analysis EXCEPT !.lists_ok = FALSE] }

Texts == SeqsUpTo(Tokens, MaxText)

\* the scoring call raises, or answers one of the texts with one of the documents
ScoreOuts(docs) ==
    {[raised |-> "LlmError", text |-> <<>>, doc |-> default_analysis]}
      \cup {[raised |-> "", text |-> t, doc |-> d] : t \in Texts, d \in docs}

Listing(repos) == [kind |-> "list", repos |-> repos]

ListingFailures == {[kind |-> "error", repos |-> <<>>], [kind |-> "badjson", repos |-> <<>>]}

(***************************************************************************)
(* Spec: one request at a time against the empty store, with every answer  *)
(* of the profile, scoring and store services.                             *)
(***************************************************************************)
Slots == {1}

Init ==
    /\ req = [r \in Slots |-> IdleReq]
    /\ store = <<>>
    /\ clock = 0

Next ==
    \/ \E url \in {Octocat, Https \o HostMarker \o Octocat} :
          store = <<>> /\ ReceiveAnalyze(1, url)
    \/ \E resp \in {"ok", "404", "error", "badjson"} : GetUserProfile(1, resp)
    \/ \E resp \in {Listing(RepoList(<<k>>, n)) : k \in RepoKinds, n \in 0..1} \cup ListingFailures :
          GetRepositories(1, resp)
    \/ GetReadme(1)
    \/ \E out \in ScoreOuts(GoodDocs \cup ExtraKeyDocs \cup BadDocs) : GenerateAnalysis(1, out)
    \/ \E ok \in BOOLEAN : InsertOne(1, ok)
    \/ Return(1)
    \/ Tick(1)

Spec == Init /\ [][Next]_vars

(***************************************************************************)
(* Claims checked under Spec.                                              *)
(***************************************************************************)
Analyzed(r) == req[r].kind = "analyze" /\ req[r].pc = "done"

\* C1: a request whose profile lookup was answered 404 ends with HTTP 404, has made no other
\* outbound call, and leaves the Result Store as it was when the request came in.
C1_NotFoundPersistsNothing ==
    \A r \in DOMAIN req :
        Analyzed(r) /\ req[r].answers.profile = "404"
            => /\ req[r].status = 404
               /\ store = req[r].store0
               /\ req[r].calls = <<<<"profile", req[r].username>>>>

C1_Witness ==
    \E r \in DOMAIN req : Analyzed(r) /\ req[r].answers.profile = "404" /\ req[r].status = 404

\* C2: when the profile lookup succeeded and the scoring call raised or its text did not
\* parse as JSON, the request goes on to the store write with the fixed breakdown
\* 60/65/55/60/50/60; when that write succeeds the response is HTTP 200 with that breakdown,
\* exactly one record with it is added to the store, and the scoring call was made once.
C2_ScoringFallback ==
    \A r \in DOMAIN req :
        /\ req[r].kind = "analyze"
        /\ req[r].answers.profile = "ok"
        /\ req[r].answers.scoring \in {"raised", "unparsable"}
        => LET fixed == [documentation |-> 60, code_structure |-> 65,
                         activity_consistency |-> 55, repository_organization |-> 60,
                         project_impact |-> 50, technical_depth |-> 60]
           IN /\ req[r].pc \in {"insert", "done"}
              /\ "score_breakdown" \in DOMAIN req[r].analysis
              /\ req[r].analysis.score_breakdown = fixed
              /\ Cardinality({k \in 1..Len(req[r].calls) : req[r].calls[k][1] = "scoring"}) = 1
              /\ req[r].pc = "done" => req[r].answers.insert \in {"ok", "failed"}
              /\ req[r].pc = "done" /\ req[r].answers.insert = "ok"
                    => /\ req[r].status = 200
                       /\ req[r].body.score_breakdown = fixed
                       /\ Len(store) = Len(req[r].store0) + 1
                       /\ SubSeq(store, 1, Len(req[r].store0)) = req[r].store0
                       /\ Last(store).score_breakdown = fixed
                       /\ Last(store).id = req[r].body.id

C2_Witness ==
    \E r \in DOMAIN req :
        /\ Analyzed(r)
        /\ req[r].answers.scoring = "unparsable"
        /\ req[r].answers.insert = "ok"
        /\ req[r].status = 200

\* C3: the overall_score of every record returned with HTTP 200 is floor(S / 6), S the sum of
\* the six ScoreBreakdown fields of that record.
C3_OverallIsFloorOfMean ==
    \A r \in DOMAIN req :
        Analyzed(r) /\ req[r].status = 200
            => LET b == req[r].body.score_breakdown
                   S == b.documentation + b.code_structure + b.activity_consistency
                          + b.repository_organization + b.project_impact + b.technical_depth
               IN req[r].body.overall_score = S \div 6

\* the ai_analysis value has the four keys, a breakdown with the six integer fields and three
\* lists of strings
FitsSchema(ai) ==
    /\ ai.kind = "object"
    /\ {"score_breakdown", "strengths", "weaknesses", "recommendations"} \subseteq ai.keys
    /\ ai.bd_kind = "dict"
    /\ \A f \in SixFields : f \in DOMAIN ai.vals /\ f \notin ai.nonint
    /\ ai.lists_ok

\* C4: a request ends with HTTP 200, 404 or 500; with 404 exactly when the profile lookup was
\* answered 404; with 500 and a detail when the profile lookup failed otherwise, when the
\* parsed scoring document lacks a key or has a breakdown that does not fit the six integer
\* fields, or when the store write failed; and a request that does not end with 200 adds no
\* record.
C4_StatusCodes ==
    \A r \in DOMAIN req :
        Analyzed(r)
            => /\ req[r].status \in {200, 404, 500}
               /\ req[r].status = 404 <=> req[r].answers.profile = "404"
               /\ req[r].answers.profile \in {"error", "badjson"} => req[r].status = 500
               /\ req[r].answers.scoring = "parsed" /\ ~ FitsSchema(req[r].ai_analysis)
                      => req[r].status = 500
               /\ req[r].answers.insert = "failed" => req[r].status = 500
               /\ req[r].status # 200 => req[r].detail # <<>> /\ store = req[r].store0
               /\ req[r].status = 200
                      => /\ req[r].answers.profile = "ok"
                         /\ req[r].answers.insert = "ok"
                         /\ FitsSchema(req[r].ai_analysis)

C4_Witness ==
    \E r \in DOMAIN req :
        /\ Analyzed(r)
        /\ req[r].answers.scoring = "parsed"
        /\ "recommendations" \notin req[r].ai_analysis.keys
        /\ req[r].status = 500

(***************************************************************************)
(* SpecAgg: one request at a time against the empty store, with every      *)
(* repository list up to TopRepos + MaxBeyondTop entries and a few scoring *)
(* answers.                                                                *)
(***************************************************************************)
AggLists ==
    {RepoList(b, n) : b \in SeqsUpTo(RepoKinds, 2) \ {<<>>}, n \in 0..(TopRepos + MaxBeyondTop)}

AggScoreOuts ==
    { [raised |-> "LlmError", text |-> <<>>, doc |-> default_analysis],
      [raised |-> "", text |-> <<"P">>, doc |-> default_analysis],
      [raised |-> "", text |-> <<"FJ", "J", "F">>, doc |-> ObjectDoc([f \in SixFields |-> 100])],
      [raised |-> "", text |-> <<"J">>, doc |-> [default_analysis EXCEPT !.keys = TextLists]] }

NextAgg ==
    \/ store = <<>> /\ ReceiveAnalyze(1, Octocat)
    \/ \E resp \in {"ok", "404", "error"} : GetUserProfile(1, resp)
    \/ \E resp \in {Listing(l) : l \in AggLists} \cup {[kind |-> "error", repos |-> <<>>]} :
          GetRepositories(1, resp)
    \/ GetReadme(1)
    \/ \E out \in AggScoreOuts : GenerateAnalysis(1, out)
    \/ \E ok \in BOOLEAN : InsertOne(1, ok)
    \/ Return(1)

SpecAgg == Init /\ [][NextAgg]_vars

\* the aggregator has returned to the handler
Aggregated(r) == req[r].kind = "analyze" /\ req[r].pc \in {"scoring", "insert", "done"}
                    /\ req[r].answers.listing \in {"list", "error"}

ReadmeCalls(r) == {k \in 1..Len(req[r].calls) : req[r].calls[k][1] = "readme"}

\* C7: after a successful profile lookup no answer of the listing (a list or an error) or of
\* a README fetch fails the request: a request that does not end with 200 failed on the
\* scoring document or the store write, and one whose scoring payload is the default or fits
\* the schema and whose store write succeeds ends with 200 and that payload; with an empty or
\* failed listing every derived count is zero or empty and no README is fetched.
C7_NonEssentialCallsNeverFail ==
    \A r \in DOMAIN req :
        req[r].kind = "analyze" /\ req[r].answers.profile = "ok"
           /\ req[r].answers.listing \in {"list", "error"}
        => /\ req[r].pc = "done" /\ req[r].status # 200
                => \/ req[r].answers.scoring = "parsed" /\ ~ FitsSchema(req[r].ai_analysis)
                   \/ req[r].answers.insert = "failed"
           /\ req[r].pc = "done" /\ req[r].answers.insert = "ok"
                => /\ req[r].status = 200
                   /\ \A f \in SixFields :
                         req[r].body.score_breakdown[f] = req[r].ai_analysis.vals[f]
           /\ req[r].pc \in {"scoring", "insert", "done"}
                 /\ (req[r].answers.listing = "error" \/ req[r].repos = <<>>)
                => /\ req[r].stats.total_stars = 0
                   /\ req[r].stats.total_forks = 0
                   /\ DOMAIN req[r].stats.languages = {}
                   /\ req[r].stats.repos_with_readme = 0
                   /\ req[r].stats.repos_with_description = 0
                   /\ req[r].stats.top_repos = <<>>
                   /\ ReadmeCalls(r) = {}

C7_Witness ==
    \E r \in DOMAIN req :
        /\ Analyzed(r)
        /\ req[r].answers.listing = "error"
        /\ req[r].status = 200
        /\ req[r].stats.total_stars = 0

\* the calls of a whole successful request for username u over the list repos
ExpectedCalls(u, repos) ==
    <<<<"profile", u>>, <<"repos", u>>>>
      \o [k \in 1..(IF Len(repos) < 10 THEN Len(repos) ELSE 10) |-> <<"readme", repos[k].name>>]
      \o <<<<"scoring", u>>, <<"insert", u>>>>

\* C9: the outbound calls of a request are, in this order and each once, the profile fetch,
\* the listing, one README fetch for each of the first min(10, n) repositories in list order,
\* the scoring call and the insert: the calls made so far are always a prefix of that
\* sequence, a failed profile fetch is the only call of its request, and a request that ends
\* with 200 has made them all.
C9_CallOrder ==
    \A r \in DOMAIN req :
        req[r].kind = "analyze"
        => LET c == req[r].calls
               e == ExpectedCalls(req[r].username, req[r].repos)
           IN /\ Len(c) <= Len(e)
              /\ c = SubSeq(e, 1, Len(c))
              /\ Cardinality(ReadmeCalls(r)) <= 10
              /\ req[r].answers.profile \notin {"", "ok"} => Len(c) = 1
              /\ req[r].pc = "done" /\ req[r].status = 200 => c = e
              /\ req[r].pc = "insert" => Len(c) = Len(e) - 1

C9_Witness ==
    \E r \in DOMAIN req :
        /\ Analyzed(r)
        /\ req[r].status = 200
        /\ Len(req[r].repos) > 10
        /\ Cardinality(ReadmeCalls(r)) = 10

\* C10: the aggregate equals the reference: stars and forks summed over the whole list, the
\* language tally and the description count over the first 10 entries, repos_with_readme the
\* number of the first 10 entries whose README fetch was answered 200, top_repos the first 10
\* entries in list order.
C10_AggregateReference ==
    \A r \in DOMAIN req :
        Aggregated(r) /\ req[r].answers.listing = "list"
        => LET repos == req[r].repos
               all == 1..Len(repos)
               first == {k \in all : k <= 10}
               langs == {repos[k].language : k \in first} \ {None}
               st == req[r].stats
           IN /\ st.total_stars = SumFun([k \in all |-> repos[k].stargazers_count], all)
              /\ st.total_forks = SumFun([k \in all |-> repos[k].forks_count], all)
              /\ DOMAIN st.languages = langs
              /\ \A l \in langs :
                    st.languages[l] = Cardinality({k \in first : repos[k].language = l})
              /\ st.repos_with_description
                    = Cardinality({k \in first : repos[k].description \notin {None, ""}})
              /\ st.repos_with_readme
                    = Cardinality({k \in first : repos[k].readme \in {"text", "empty"}})
              /\ st.top_repos = [k \in first |-> repos[k]]

(***************************************************************************)
(* SpecConc: two request tasks that interleave at every await, analysing   *)
(* the same username and listing the recent analyses.                      *)
(***************************************************************************)
InitConc ==
    /\ req = [r \in {1, 2} |-> IdleReq]
    /\ store = <<>>
    /\ clock = 0

NextConc ==
    \E r \in {1, 2} :
        \/ Len(store) < MaxConcStore /\ ReceiveAnalyze(r, Octocat)
        \/ \E resp \in {"ok", "404"} : GetUserProfile(r, resp)
        \/ GetRepositories(r, Listing(<<>>))
        \/ GenerateAnalysis(r, [raised |-> "LlmError", text |-> <<>>, doc |-> default_analysis])
        \/ \E ok \in BOOLEAN : InsertOne(r, ok)
        \/ ReceiveList(r)
        \/ GetRecentAnalyses(r, TRUE, TRUE)
        \/ Return(r)
        \/ Tick(1)

SpecConc == InitConc /\ [][NextConc]_vars

\* C5: the Result Store is append-only under interleaved requests: every step keeps the
\* stored records as they are and adds at most one; a record is added exactly by a step in
\* which an analyze request ends with HTTP 200, it is that request's record, its id differs
\* from every stored id even when its username is already stored; GET /api/analyses adds
\* nothing; the ids in the store stay distinct.
C5_AppendOnly ==
    [][ /\ Len(store') >= Len(store)
        /\ SubSeq(store', 1, Len(store)) = store
        /\ Len(store') <= Len(store) + 1
        /\ \A r \in DOMAIN req :
              req[r].pc # "done" /\ req'[r].pc = "done" /\ req'[r].kind = "analyze"
                 /\ req'[r].status = 200
              => /\ Len(store') = Len(store) + 1
                 /\ store'[Len(store')].id = req'[r].body.id
                 /\ store'[Len(store')].username = req'[r].username
                 /\ \A k \in 1..Len(store) : store[k].id # req'[r].body.id
        /\ Len(store') = Len(store) + 1
              => \E r \in DOMAIN req :
                    /\ req[r].pc # "done" /\ req'[r].pc = "done"
                    /\ req'[r].kind = "analyze" /\ req'[r].status = 200
        /\ \A j, k \in 1..Len(store') : store'[j].id = store'[k].id => j = k
      ]_vars

\* two records of the same username, the later stored one built earlier: two requests overlapped
C5_Witness ==
    \E j, k \in 1..Len(store) :
        /\ j < k
        /\ store[j].username = store[k].username
        /\ store[j].id # store[k].id
        /\ StrLess(store[k].timestamp, store[j].timestamp)

(***************************************************************************)
(* SpecRecent: one client that sends its requests one after the other,     *)
(* until the store holds RecentLimit + MaxBeyondRecent records.            *)
(***************************************************************************)
NextRecent ==
    \/ Len(store) < RecentLimit + MaxBeyondRecent /\ ReceiveAnalyze(1, Octocat)
    \/ GetUserProfile(1, "ok")
    \/ GetRepositories(1, Listing(<<>>))
    \/ GenerateAnalysis(1, [raised |-> "LlmError", text |-> <<>>, doc |-> default_analysis])
    \/ InsertOne(1, TRUE)
    \/ ReceiveList(1)
    \/ \E ok, newestFirst \in BOOLEAN : GetRecentAnalyses(1, ok, newestFirst)
    \/ Return(1)
    \/ Tick(MaxClock)

SpecRecent == Init /\ [][NextRecent]_vars

\* C6: GET /api/analyses answers min(10, n) of the n stored records, each once and with the
\* instant it was built at; no record left out is later than one returned; and each record's
\* instant is at least the next one's.
C6_RecentNewestFirst ==
    \A r \in DOMAIN req :
        req[r].kind = "list" /\ req[r].pc = "done" /\ req[r].status = 200
        => LET out == req[r].body
               stored(id) == CHOOSE k \in 1..Len(store) : store[k].id = id
           IN /\ Len(out) = IF Len(store) < 10 THEN Len(store) ELSE 10
              /\ \A p \in 1..Len(out) : out[p].id \in StoredIds
              /\ \A p, q \in 1..Len(out) : out[p].id = out[q].id => p = q
              /\ \A p \in 1..Len(out) :
                    \E c \in 0..clock :
                        /\ out[p].timestamp = now(c)
                        /\ store[stored(out[p].id)].timestamp = isoformat(now(c))
              /\ \A p \in 1..(Len(out) - 1) :
                    Instant(out[p].timestamp) >= Instant(out[p + 1].timestamp)
              /\ \A k \in 1..Len(store), p \in 1..Len(out) :
                    (\A q \in 1..Len(out) : out[q].id # store[k].id)
                    => \A c \in 0..clock :
                          store[k].timestamp = isoformat(now(c))
                          => Instant(now(c)) <= Instant(out[p].timestamp)

\* more than 10 records, among them one built on a whole second and one later within it
C6_Witness ==
    \E r \in DOMAIN req :
        /\ req[r].kind = "list" /\ req[r].pc = "done" /\ req[r].status = 200
        /\ Len(store) > 10
        /\ Len(req[r].body) = 10
        /\ \E p, q \in 1..Len(req[r].body) :
              /\ req[r].body[p].timestamp.second = req[r].body[q].timestamp.second
              /\ req[r].body[p].timestamp.microsecond = 0
              /\ req[r].body[q].timestamp.microsecond # 0

(***************************************************************************)
(* SpecNorm: one request at a time, over the usernames put together from   *)
(* Pieces and the ways of writing them as a profile URL.                   *)
(***************************************************************************)
HostName == SubSeq(HostMarker, 1, Len(HostMarker) - 1)

Pieces == {<<"o", "c", "t", "o">>, <<"c", "a", "t">>, HostName, <<"/">>}

NormUsers == {Concat(ps) : ps \in SeqsUpTo(Pieces, MaxPieces)}

Pads == {<<>>, <<" ">>, <<"\t", "\n">>}

\* the four ways of writing the profile of u
Forms(u) == {u, Https \o HostMarker \o u, Https \o HostMarker \o u \o <<"/">>, HostMarker \o u}

NormInputs == {pre \o f \o post : pre \in Pads, post \in Pads, f \in UNION {Forms(u) : u \in NormUsers}}

NextNorm ==
    \/ \E url \in NormInputs : store = <<>> /\ ReceiveAnalyze(1, url)
    \/ \E resp \in {"ok", "404"} : GetUserProfile(1, resp)
    \/ GetRepositories(1, Listing(<<>>))
    \/ GenerateAnalysis(1, [raised |-> "LlmError", text |-> <<>>, doc |-> default_analysis])
    \/ InsertOne(1, TRUE)
    \/ Return(1)

SpecNorm == Init /\ [][NextNorm]_vars

\* the request of slot r was sent one of the four forms of u, padded with whitespace
SentFormOf(r, u) ==
    \E pre \in Pads, post \in Pads, f \in Forms(u) : req[r].github_url = pre \o f \o post

\* the username of slot r is u in every call made and in the record returned
UsesUsername(r, u) ==
    /\ req[r].username = u
    /\ \A k \in 1..Len(req[r].calls) : req[r].calls[k][2] = u
    /\ req[r].status = 200 => req[r].body.username = u /\ Last(store).username = u

PlainUser(u) == \A k \in 1..Len(u) : u[k] # "/" /\ u[k] \notin Whitespace

\* C8 as stated: every username without '/', whitespace and 'github.com/' is derived from each
\* of its four forms, and an input without 'github.com/' is used verbatim after trimming.
C8_NormalizeAsStated ==
    \A r \in DOMAIN req :
        req[r].kind = "analyze"
        => /\ \A u \in NormUsers :
                 PlainUser(u) /\ ~ Contains(u, HostMarker) /\ SentFormOf(r, u)
                 => UsesUsername(r, u)
           /\ ~ Contains(req[r].github_url, HostMarker)
                 => \E pre \in Pads, post \in Pads :
                       req[r].github_url = pre \o req[r].username \o post

\* C8 amended: the same for every such username that does not end with 'github.com'.
C8_NormalizeAmended ==
    \A r \in DOMAIN req :
        req[r].kind = "analyze"
        => /\ \A u \in NormUsers :
                 /\ PlainUser(u)
                 /\ ~ Contains(u, HostMarker)
                 /\ ~ (Len(u) >= Len(HostName)
                         /\ SubSeq(u, Len(u) - Len(HostName) + 1, Len(u)) = HostName)
                 /\ SentFormOf(r, u)
                 => UsesUsername(r, u)
           /\ ~ Contains(req[r].github_url, HostMarker)
                 => \E pre \in Pads, post \in Pads :
                       /\ req[r].github_url = pre \o req[r].username \o post
                       /\ req[r].username = <<>>
                            \/ (Head(req[r].username) \notin Whitespace
                                  /\ Last(req[r].username) \notin Whitespace)

C8_Witness ==
    \E r \in DOMAIN req :
        /\ Analyzed(r)
        /\ req[r].status = 200
        /\ req[r].github_url = <<" ">> \o Https \o HostMarker \o Octocat \o <<"/">> \o <<"\t", "\n">>
        /\ req[r].body.username = Octocat

====
